---- MODULE Spec2Model ----
(***************************************************************************)
(* Progress / exam / completion engine of the LMS API.                     *)
(*                                                                         *)
(* The database holds one course, its question bank, at most one           *)
(* enrollment row of one learner in that course, and the exam attempts of  *)
(* that enrollment.  A request handler is a sequence of steps separated    *)
(* by its awaits.  Spec runs every handler to completion before the next   *)
(* request starts (one request at a time); ConcSpec lets two requests      *)
(* interleave at their awaits.                                             *)
(*                                                                         *)
(* Encodings: a nullable timestamp, URL or duration is 0 when null; an     *)
(* optional request field is the empty sequence when absent and <<v>> when *)
(* present; a string is a sequence of one-character strings; examScore and *)
(* the score of an attempt are in hundredths of a percent (DECIMAL(5,2)).  *)
(***************************************************************************)
EXTENDS Integers, Sequences, FiniteSets, TLC

\* ---------------------------------------------------------------- bounds
MaxAttempts == 2
MaxTimeSpent == 15
MaxQuestions == 2

\* ------------------------------------------------------- program constants
DEFAULT_PASSING_SCORE == 70
DefaultPoints == 1
WordsPerMinute == 200
MinReadingSeconds == 10
FallbackReadingSeconds == 10
MsPerSecond == 1000
NoTime == 0
NoUrl == 0
NoScore == -1

\* ------------------------------------------------------------ arithmetic
Min(a, b) == IF a <= b THEN a ELSE b
Max(a, b) == IF a >= b THEN a ELSE b

\* Math.round(n / d) for d > 0: the nearest integer, halves towards +infinity.
Round(n, d) == (2 * n + d) \div (2 * d)

\* Math.ceil(n / d) for d > 0.
Ceil(n, d) == -((-n) \div d)

\* --------------------------------------------------------------- strings
Space == " "

LowerChar(c) ==
    CASE c = "O" -> "o"
      [] c = "K" -> "k"
      [] c = "N" -> "n"
      [] OTHER -> c

\* String.prototype.toLowerCase
ToLowerCase(s) == [i \in 1..Len(s) |-> LowerChar(s[i])]

\* String.prototype.trim: drops the leading and the trailing white space.
Trim(s) ==
    LET idx == {i \in 1..Len(s) : s[i] # Space}
    IN  IF idx = {} THEN <<>>
        ELSE LET lo == CHOOSE i \in idx : \A j \in idx : i <= j
                 hi == CHOOSE i \in idx : \A j \in idx : i >= j
             IN  SubSeq(s, lo, hi)

\* ----------------------------------------------------------------- state
VARIABLES
    course,        \* the Course row
    questions,     \* the Question rows of the course: id -> row
    questionsCreated, \* the number of Question rows created so far
    enrolled,      \* whether the Enrollment row of the learner exists
    enrollmentRows, \* the number of Enrollment rows of the learner and the course
    enrollment,    \* the Enrollment row (meaningful when enrolled)
    examAttempts,  \* the ExamAttempt rows of the enrollment, in insertion order
    now,           \* the clock: what the next new Date() returns
    certCalls,     \* calls made to generateCertificate, the upload and sendEmail
    reqs,          \* the requests in flight: slot -> handler position and locals
    response       \* the last response sent

vars == <<course, questions, questionsCreated, enrolled, enrollmentRows, enrollment,
          examAttempts, now, certCalls, reqs, response>>

\* ---------------------------------------------------------------- models
\* Course.create with the model defaults; textContent is kept as its word
\* count (0: no text body).
CourseRow(type, duration, minutes, words, passing) ==
    [contentType |-> type, contentDurationSeconds |-> duration,
     requiredReadingMinutes |-> minutes, wordCount |-> words,
     passingScore |-> passing]

Courses ==
    { CourseRow("video", 0, 0, 0, DEFAULT_PASSING_SCORE),
      CourseRow("text", 0, 0, 3, DEFAULT_PASSING_SCORE) }

\* Enrollment.create({learnerId, courseId}): every other column at its default.
NewEnrollment ==
    [progress |-> 0, contentProgress |-> 0, contentCompletedAt |-> NoTime,
     timeSpentSeconds |-> 0, examPassed |-> FALSE, examScore |-> NoScore,
     examAttemptCount |-> 0, completed |-> FALSE, completedAt |-> NoTime,
     certificateUrl |-> NoUrl]

\* An Enrollment model without validators.
ValidEnrollmentNone(row, fields) == TRUE

\* The min/max validators of progress and contentProgress, run on the columns
\* a save writes.
ValidEnrollment(row, fields) ==
    /\ "progress" \in fields => (row.progress >= 0 /\ row.progress <= 100)
    /\ "contentProgress" \in fields =>
           (row.contentProgress >= 0 /\ row.contentProgress <= 100)

\* A model instance in memory: the row as read, and the columns assigned a
\* different value since.
Instance(row) == [row |-> row, changed |-> {}]

SetField(inst, f, v) ==
    IF inst.row[f] = v THEN inst
    ELSE [row |-> [inst.row EXCEPT ![f] = v], changed |-> inst.changed \cup {f}]

\* The clock after a handler that stamped column f with new Date(), if it
\* did: every reading of the clock is later than the one before.
ClockAfter(time, inst, f) == IF f \in inst.changed THEN time + 1 ELSE time

\* instance.save(): an UPDATE of the changed columns of the stored row.
SaveRow(db, inst) ==
    [f \in DOMAIN db |-> IF f \in inst.changed THEN inst.row[f] ELSE db[f]]

\* --------------------------------------------------------------- requests
Slots == {1, 2}
Idle == [pc |-> "idle"]

NoResponse == [op |-> "none", status |-> 0, error |-> "None", data |-> << >>]

Reply(op, status, error, data) ==
    [op |-> op, status |-> status, error |-> error, data |-> data]

\* ------------------------------------------------------- updateProgress
\* A number of seconds that need not be whole, num / den: the duration an
\* HTML5 media element reports is a float.
Seconds(num, den) == [num |-> num, den |-> den]

\* The duration the handler computes with: course.contentDurationSeconds
\* (Number(null) is 0), or the client-reported duration when the course has
\* none.
EffectiveDuration(c, body) ==
    IF c.contentDurationSeconds = 0 /\ Len(body.totalDurationSeconds) = 1
       /\ body.totalDurationSeconds[1].num > 0
    THEN body.totalDurationSeconds[1]
    ELSE Seconds(c.contentDurationSeconds, 1)

\* What the database does with a duration that is not whole, written to the
\* INTEGER column contentDurationSeconds: it rejects the UPDATE (the value
\* sent as a bind parameter) or rounds the value (sent as a literal).
DurationWrites == {"rejected", "rounded"}

\* The Course row after the Course.update the handler issues on adoption; the
\* handler does not await it and logs its failure.
AdoptDuration(c, body, write) ==
    LET duration == EffectiveDuration(c, body)
    IN  IF duration.num % duration.den = 0
        THEN [c EXCEPT !.contentDurationSeconds = duration.num \div duration.den]
        ELSE IF write = "rounded"
             THEN [c EXCEPT !.contentDurationSeconds = Round(duration.num, duration.den)]
             ELSE c

\* The reported position taken as seconds whatever the duration.
PositionUncorrected(position, duration) == position * MsPerSecond

\* The reported position in milliseconds after the ms -> seconds correction:
\* a position above twice the duration is divided by 1000.
PositionMillis(position, duration) ==
    IF position * duration.den > duration.num * 2 THEN position
    ELSE position * MsPerSecond

\* Media progress that follows the position wherever it goes.
MediaProgressNoMax(previous, c, body) ==
    LET duration == EffectiveDuration(c, body)
    IN  IF duration.num > 0 /\ Len(body.currentPositionSeconds) = 1
        THEN Min(100, Round(PositionMillis(body.currentPositionSeconds[1], duration)
                               * 100 * duration.den,
                            duration.num * MsPerSecond))
        ELSE previous

\* Media progress that starts over when it cannot be computed.
MediaProgressReset(previous, c, body) ==
    LET duration == EffectiveDuration(c, body)
    IN  IF duration.num > 0 /\ Len(body.currentPositionSeconds) = 1
        THEN LET calculatedProgress ==
                     Round(PositionMillis(body.currentPositionSeconds[1], duration)
                              * 100 * duration.den,
                           duration.num * MsPerSecond)
             IN  Min(100, Max(previous, calculatedProgress))
        ELSE 0

\* contentProgress of a video or audio course.
MediaProgress(previous, c, body) ==
    LET duration == EffectiveDuration(c, body)
    IN  IF duration.num > 0 /\ Len(body.currentPositionSeconds) = 1
        THEN LET calculatedProgress ==
                     Round(PositionMillis(body.currentPositionSeconds[1], duration)
                              * 100 * duration.den,
                           duration.num * MsPerSecond)
             IN  Min(100, Max(previous, calculatedProgress))
        ELSE previous

\* Seconds of reading a text course requires.
RequiredSeconds(c) ==
    IF c.requiredReadingMinutes # 0 THEN c.requiredReadingMinutes * 60
    ELSE IF c.wordCount # 0
         THEN Max(Ceil(c.wordCount * 60, WordsPerMinute), MinReadingSeconds)
         ELSE FallbackReadingSeconds

\* (enrollment.timeSpentSeconds || 0) + (timeSpentSeconds || 0)
NewTimeSpent(row, body) ==
    row.timeSpentSeconds
    + (IF Len(body.timeSpentSeconds) = 1 THEN body.timeSpentSeconds[1] ELSE 0)

\* Text progress from the reported increment alone.
TextProgressIncrement(row, c, body) ==
    Min(100, Round((NewTimeSpent(row, body) - row.timeSpentSeconds) * 100,
                   RequiredSeconds(c)))

\* contentProgress of a text course.
TextProgress(row, c, body) ==
    Min(100, Round(NewTimeSpent(row, body) * 100, RequiredSeconds(c)))

IsMedia(c) == c.contentType = "video" \/ c.contentType = "audio"

NewContentProgress(row, c, body) ==
    IF IsMedia(c) THEN MediaProgress(row.contentProgress, c, body)
    ELSE IF c.contentType = "text" THEN TextProgress(row, c, body)
    ELSE row.contentProgress

\* updateProgress stamping contentCompletedAt whenever the content is complete.
UpdateProgressComputeRestamp(row, c, body, time) ==
    LET contentProgress == NewContentProgress(row, c, body)
        i0 == Instance(row)
        i1 == IF c.contentType = "text"
              THEN SetField(i0, "timeSpentSeconds", NewTimeSpent(row, body))
              ELSE i0
        i2 == SetField(i1, "contentProgress", contentProgress)
        i3 == IF contentProgress >= 100
              THEN SetField(i2, "contentCompletedAt", time)
              ELSE i2
    IN  SetField(i3, "progress", contentProgress)

\* The enrollment instance of updateProgress when it calls save().
UpdateProgressCompute(row, c, body, time) ==
    LET contentProgress == NewContentProgress(row, c, body)
        i0 == Instance(row)
        i1 == IF c.contentType = "text"
              THEN SetField(i0, "timeSpentSeconds", NewTimeSpent(row, body))
              ELSE i0
        i2 == SetField(i1, "contentProgress", contentProgress)
        i3 == IF contentProgress >= 100 /\ i2.row.contentCompletedAt = NoTime
              THEN SetField(i2, "contentCompletedAt", time)
              ELSE i2
    IN  SetField(i3, "progress", contentProgress)

UpdateProgressData(row) ==
    [contentProgress |-> row.contentProgress,
     timeSpentSeconds |-> row.timeSpentSeconds,
     contentCompleted |-> row.contentProgress >= 100,
     contentCompletedAt |-> row.contentCompletedAt]

Positions == {<< >>, <<-10>>, <<30>>, <<60>>, <<120>>, <<5000>>}
ClientDurations == {<< >>, <<Seconds(0, 1)>>, <<Seconds(60, 1)>>, <<Seconds(121, 2)>>}
TimeIncrements == {<< >>, <<-5>>, <<5>>}

ProgressBodies ==
    { [currentPositionSeconds |-> p, totalDurationSeconds |-> d,
       timeSpentSeconds |-> << >>] : p \in Positions, d \in ClientDurations }
    \cup
    { [currentPositionSeconds |-> << >>, totalDurationSeconds |-> << >>,
       timeSpentSeconds |-> t] : t \in TimeIncrements }

AllIdle == \A s \in Slots : reqs[s].pc = "idle"

\* No request is in flight and the learner has received the last response.
Ready == AllIdle /\ response = NoResponse

\* updateProgress adopting the duration of the client before it looks for the
\* enrollment.
UpdateProgressAdoptFirst(body, write) ==
    /\ Ready
    /\ course' = (IF IsMedia(course) THEN AdoptDuration(course, body, write)
                  ELSE course)
    /\ IF ~enrolled
       THEN /\ response' = Reply("updateProgress", 404, "NotEnrolled", << >>)
            /\ UNCHANGED <<enrollment, now>>
       ELSE LET inst == UpdateProgressCompute(enrollment, course, body, now)
            IN  /\ inst.row.timeSpentSeconds <= MaxTimeSpent
                /\ now' = ClockAfter(now, inst, "contentCompletedAt")
                /\ IF ValidEnrollment(inst.row, inst.changed)
                   THEN /\ enrollment' = SaveRow(enrollment, inst)
                        /\ response' = Reply("updateProgress", 200, "None",
                                             UpdateProgressData(inst.row))
                   ELSE /\ enrollment' = enrollment
                        /\ response' = Reply("updateProgress", 500, "ServerError", << >>)
    /\ UNCHANGED <<questions, questionsCreated, enrolled, enrollmentRows, examAttempts,
                   certCalls, reqs>>

\* The whole handler, run without interleaving.
UpdateProgress(body, write) ==
    /\ Ready
    /\ IF ~enrolled
       THEN /\ response' = Reply("updateProgress", 404, "NotEnrolled", << >>)
            /\ UNCHANGED <<course, enrollment, now>>
       ELSE LET inst == UpdateProgressCompute(enrollment, course, body, now)
            IN  /\ inst.row.timeSpentSeconds <= MaxTimeSpent
                /\ course' = (IF IsMedia(course) THEN AdoptDuration(course, body, write)
                              ELSE course)
                /\ now' = ClockAfter(now, inst, "contentCompletedAt")
                /\ IF ValidEnrollment(inst.row, inst.changed)
                   THEN /\ enrollment' = SaveRow(enrollment, inst)
                        /\ response' = Reply("updateProgress", 200, "None",
                                             UpdateProgressData(inst.row))
                   ELSE /\ enrollment' = enrollment
                        /\ response' = Reply("updateProgress", 500, "ServerError", << >>)
    /\ UNCHANGED <<questions, questionsCreated, enrolled, enrollmentRows, examAttempts,
                   certCalls, reqs>>

\* ------------------------------------------------------- purchaseCourse
\* An enrollments table without the unique index.
UniqueViolationNoIndex(rows) == FALSE

\* The unique index on (learnerId, courseId): the INSERT of a second row for
\* the pair is rejected.
UniqueViolation(rows) == rows > 0

\* Enrollment.create({learnerId, courseId}) and the response of the handler
\* op: a rejected INSERT reaches the error handler; an INSERT touches no row
\* that exists.
CreateEnrollment(op) ==
    IF UniqueViolation(enrollmentRows)
    THEN /\ response' = Reply(op, 500, "ServerError", << >>)
         /\ UNCHANGED <<enrolled, enrollmentRows, enrollment>>
    ELSE /\ enrollmentRows' = enrollmentRows + 1
         /\ enrolled' = TRUE
         /\ enrollment' = (IF enrolled THEN enrollment ELSE NewEnrollment)
         /\ response' = Reply(op, 200, "None", << >>)

\* Free enrollment: creates the row unless one exists.
PurchaseCourse ==
    /\ Ready
    /\ IF enrolled
       THEN /\ response' = Reply("purchaseCourse", 400, "AlreadyEnrolled", << >>)
            /\ UNCHANGED <<enrolled, enrollmentRows, enrollment>>
       ELSE CreateEnrollment("purchaseCourse")
    /\ UNCHANGED <<course, questions, questionsCreated, examAttempts, now,
                   certCalls, reqs>>

\* ------------------------------------------------------------ questions
OptionsAB ==
    << [id |-> <<"a">>, text |-> "x", isCorrect |-> TRUE],
       [id |-> <<"b">>, text |-> "y", isCorrect |-> FALSE] >>

OptionsNoneCorrect ==
    << [id |-> <<"a">>, text |-> "x", isCorrect |-> FALSE],
       [id |-> <<"b">>, text |-> "y", isCorrect |-> FALSE] >>

AnswerOk == <<" ", "O", "k">>

\* Request bodies of addQuestion; an absent options, correctAnswer or points
\* is the empty sequence.
QuestionBodies ==
    { [questionType |-> "mcq", options |-> OptionsAB, correctAnswer |-> << >>,
       points |-> << >>],
      [questionType |-> "mcq", options |-> OptionsNoneCorrect,
       correctAnswer |-> << >>, points |-> << >>],
      [questionType |-> "quiz", options |-> << >>, correctAnswer |-> AnswerOk,
       points |-> <<3>>],
      [questionType |-> "quiz", options |-> << >>, correctAnswer |-> << >>,
       points |-> << >>] }

\* The validation of addQuestion: the error it answers with, or "None".
QuestionError(body) ==
    IF body.questionType \notin {"mcq", "quiz"} THEN "BadQuestionType"
    ELSE IF body.questionType = "mcq" /\ Len(body.options) < 2 THEN "TooFewOptions"
    ELSE IF body.questionType = "mcq"
            /\ ~\E i \in 1..Len(body.options) : body.options[i].isCorrect
         THEN "NoCorrectOption"
    ELSE IF body.questionType = "quiz" /\ body.correctAnswer = << >>
         THEN "NoCorrectAnswer"
    ELSE "None"

\* Question.max('order') || 0
MaxOrder(qs) ==
    IF DOMAIN qs = {} THEN 0
    ELSE LET m == CHOOSE i \in DOMAIN qs : \A j \in DOMAIN qs : qs[i].order >= qs[j].order
         IN  qs[m].order

\* The row Question.create stores.
QuestionRow(body, qs) ==
    [questionText |-> "Q",
     questionType |-> body.questionType,
     options |-> IF body.questionType = "mcq" THEN body.options ELSE << >>,
     correctAnswer |-> IF body.questionType = "quiz" THEN body.correctAnswer ELSE << >>,
     points |-> IF Len(body.points) = 1 /\ body.points[1] # 0 THEN body.points[1]
                ELSE DefaultPoints,
     order |-> MaxOrder(qs) + 1]

\* The instructor's handlers answer the instructor, not the learner.  The new
\* row's id is one no row had before; a request whose validation fails changes
\* nothing.
AddQuestion(body) ==
    /\ Ready
    /\ IF QuestionError(body) # "None"
       THEN UNCHANGED <<questions, questionsCreated>>
       ELSE /\ questionsCreated < MaxQuestions
            /\ questionsCreated' = questionsCreated + 1
            /\ questions' = [i \in DOMAIN questions \cup {questionsCreated + 1} |->
                                IF i \in DOMAIN questions THEN questions[i]
                                ELSE QuestionRow(body, questions)]
    /\ UNCHANGED <<course, enrolled, enrollmentRows, enrollment, examAttempts, now, certCalls,
                   reqs, response>>

\* Request bodies of updateQuestion: the fields the instructor sends; an absent
\* field is the empty sequence.
QuestionUpdates ==
    { [questionType |-> << >>, options |-> << >>, correctAnswer |-> << >>,
       points |-> <<v>>, order |-> << >>] : v \in {-1} }

\* The row after the assignments of updateQuestion: a falsy questionType,
\* options or correctAnswer is skipped, points and order are assigned
\* whenever they are sent.
UpdatedQuestionRow(q, body) ==
    [questionText |-> q.questionText,
     questionType |-> IF Len(body.questionType) = 1 /\ body.questionType[1] # ""
                      THEN body.questionType[1] ELSE q.questionType,
     options |-> IF Len(body.options) = 1 THEN body.options[1] ELSE q.options,
     correctAnswer |-> IF Len(body.correctAnswer) = 1 /\ body.correctAnswer[1] # << >>
                       THEN body.correctAnswer[1] ELSE q.correctAnswer,
     points |-> IF Len(body.points) = 1 THEN body.points[1] ELSE q.points,
     order |-> IF Len(body.order) = 1 THEN body.order[1] ELSE q.order]

\* A question that does not exist is answered 404; the points column has no
\* validator.
UpdateQuestion(id, body) ==
    /\ Ready
    /\ questions' = (IF id \in DOMAIN questions
                     THEN [questions EXCEPT ![id] = UpdatedQuestionRow(@, body)]
                     ELSE questions)
    /\ UNCHANGED <<course, questionsCreated, enrolled, enrollmentRows, enrollment,
                   examAttempts, now, certCalls, reqs, response>>

DeleteQuestion(id) ==
    /\ Ready
    /\ questions' = (IF id \in DOMAIN questions
                     THEN [i \in DOMAIN questions \ {id} |-> questions[i]]
                     ELSE questions)
    /\ UNCHANGED <<course, questionsCreated, enrolled, enrollmentRows, enrollment, examAttempts,
                   now, certCalls, reqs, response>>

\* -------------------------------------------------------------- getExam
\* The ids of the bank in the order of Question.findAll({order: [['order', 'ASC']]}).
OrderedIds(qs) ==
    IF DOMAIN qs = {} THEN << >>
    ELSE CHOOSE s \in [1..Cardinality(DOMAIN qs) -> DOMAIN qs] :
            /\ \A i, j \in DOMAIN s : i # j => s[i] # s[j]
            /\ \A i, j \in DOMAIN s : i < j => qs[s[i]].order <= qs[s[j]].order

\* The options sent as stored.
SanitizeOptionLeak(opt) == opt

\* opt => ({ id: opt.id, text: opt.text })
SanitizeOption(opt) == [id |-> opt.id, text |-> opt.text]

\* One question as getExam sends it: the selected attributes, the options
\* mapped through SanitizeOption.
SanitizeQuestion(id, q) ==
    [id |-> id, questionText |-> q.questionText, questionType |-> q.questionType,
     options |-> [i \in 1..Len(q.options) |-> SanitizeOption(q.options[i])],
     points |-> q.points]

GetExamData(qs, row, c) ==
    LET ids == OrderedIds(qs)
    IN  [questions |-> [i \in 1..Len(ids) |-> SanitizeQuestion(ids[i], qs[ids[i]])],
         questionCount |-> Len(ids),
         passingScore |-> c.passingScore,
         attemptNumber |-> row.examAttemptCount + 1]

GetExamReply(qs, isEnrolled, row, c) ==
    IF ~isEnrolled THEN Reply("getExam", 404, "NotEnrolled", << >>)
    ELSE IF row.contentProgress < 100
         THEN Reply("getExam", 403, "ContentIncomplete", << >>)
    ELSE Reply("getExam", 200, "None", GetExamData(qs, row, c))

GetExam ==
    /\ Ready
    /\ response' = GetExamReply(questions, enrolled, enrollment, course)
    /\ UNCHANGED <<course, questions, questionsCreated, enrolled, enrollmentRows, enrollment,
                   examAttempts, now, certCalls, reqs>>

\* ------------------------------------------------------------ submitExam
AnswerValues == { << >>, <<"a">>, <<"b">>, <<"o", "K", " ">> }

\* The answers objects a client sends for a bank: a map from some of the
\* question ids to an answer.
AnswerMaps(qs) == UNION { [D -> AnswerValues] : D \in SUBSET DOMAIN qs }

\* An absent answers field is the empty sequence.
ExamBodies(qs) == { << >> } \cup { <<a>> : a \in AnswerMaps(qs) }

\* Any option of the question carries the answered id.
McqCorrectAnyOption(q, answers, id) ==
    /\ id \in DOMAIN answers
    /\ \E i \in 1..Len(q.options) : q.options[i].id = answers[id]

\* The answer is the stored correctAnswer, character for character.
QuizCorrectExact(q, answers, id) ==
    /\ id \in DOMAIN answers
    /\ answers[id] = q.correctAnswer

\* q.options?.find(opt => opt.id === studentAnswer) is an option flagged isCorrect.
McqCorrect(q, answers, id) ==
    /\ id \in DOMAIN answers
    /\ \E i \in 1..Len(q.options) :
          /\ q.options[i].id = answers[id]
          /\ \A j \in 1..(i - 1) : q.options[j].id # answers[id]
          /\ q.options[i].isCorrect

\* studentAnswer && q.correctAnswer && the two equal after toLowerCase().trim()
QuizCorrect(q, answers, id) ==
    /\ id \in DOMAIN answers
    /\ answers[id] # << >>
    /\ q.correctAnswer # << >>
    /\ Trim(ToLowerCase(answers[id])) = Trim(ToLowerCase(q.correctAnswer))

\* The points one question adds to pointsEarned.
QuestionPoints(q, answers, id) ==
    IF q.questionType = "mcq"
    THEN (IF McqCorrect(q, answers, id) THEN q.points ELSE 0)
    ELSE IF q.questionType = "quiz"
         THEN (IF QuizCorrect(q, answers, id) THEN q.points ELSE 0)
    ELSE 0

RECURSIVE SumOver(_, _, _)
SumOver(ids, qs, answers) ==
    IF ids = {} THEN [earned |-> 0, total |-> 0]
    ELSE LET id == CHOOSE i \in ids : TRUE
             rest == SumOver(ids \ {id}, qs, answers)
         IN  [earned |-> rest.earned + QuestionPoints(qs[id], answers, id),
              total |-> rest.total + qs[id].points]

\* score, in hundredths of a percent.
ScoreOf(pointsEarned, totalPoints) ==
    IF totalPoints > 0 THEN Round(pointsEarned * 10000, totalPoints) ELSE 0

\* score >= enrollment.course.passingScore
Passed(pointsEarned, totalPoints, passingScore) ==
    IF totalPoints > 0 THEN pointsEarned * 100 >= passingScore * totalPoints
    ELSE 0 >= passingScore

\* The ExamAttempt row the handler creates from the enrollment it read.
AttemptRow(row, c, qs, answers) ==
    LET sum == SumOver(DOMAIN qs, qs, answers)
    IN  [score |-> ScoreOf(sum.earned, sum.total),
         passed |-> Passed(sum.earned, sum.total, c.passingScore),
         attemptNumber |-> row.examAttemptCount + 1,
         pointsEarned |-> sum.earned,
         totalPoints |-> sum.total]

\* submitExam with the examPassed test dropped: every passing attempt writes
\* its score.
SubmitExamComputeOverwrite(row, attempt) ==
    LET i1 == SetField(Instance(row), "examAttemptCount", attempt.attemptNumber)
    IN  IF attempt.passed
        THEN SetField(SetField(i1, "examPassed", TRUE), "examScore", attempt.score)
        ELSE i1

\* submitExam counting only the failed attempts.
SubmitExamComputeNoCount(row, attempt) ==
    IF attempt.passed /\ ~row.examPassed
    THEN SetField(SetField(Instance(row), "examPassed", TRUE), "examScore", attempt.score)
    ELSE SetField(Instance(row), "examAttemptCount", attempt.attemptNumber)

\* submitExam completing the course with the attempt that passes.
SubmitExamComputeCompletes(row, attempt) ==
    LET i1 == SetField(Instance(row), "examAttemptCount", attempt.attemptNumber)
    IN  IF attempt.passed /\ ~row.examPassed
        THEN SetField(SetField(SetField(i1, "examPassed", TRUE),
                               "examScore", attempt.score),
                      "completed", TRUE)
        ELSE i1

\* The enrollment instance of submitExam when it calls save().
SubmitExamCompute(row, attempt) ==
    LET i1 == SetField(Instance(row), "examAttemptCount", attempt.attemptNumber)
    IN  IF attempt.passed /\ ~row.examPassed
        THEN SetField(SetField(i1, "examPassed", TRUE), "examScore", attempt.score)
        ELSE i1

SubmitExamData(row, c, attempt) ==
    [score |-> attempt.score, passed |-> attempt.passed,
     pointsEarned |-> attempt.pointsEarned, totalPoints |-> attempt.totalPoints,
     passingScore |-> c.passingScore, attemptNumber |-> attempt.attemptNumber,
     canGetCertificate |-> row.contentProgress >= 100 /\ attempt.passed]

\* submitExam without the content gate.
SubmitExamGateNoContent(body, isEnrolled, row) ==
    IF body = << >> THEN "MissingAnswers"
    ELSE IF ~isEnrolled THEN "NotEnrolled"
    ELSE "None"

\* The failure submitExam answers with before it reads the questions, or
\* "None".
SubmitExamGate(body, isEnrolled, row) ==
    IF body = << >> THEN "MissingAnswers"
    ELSE IF ~isEnrolled THEN "NotEnrolled"
    ELSE IF row.contentProgress < 100 THEN "ContentIncomplete"
    ELSE "None"

\* The failure submitExam answers with before it scores anything, or "None".
SubmitExamError(body, isEnrolled, row, qs) ==
    IF SubmitExamGate(body, isEnrolled, row) # "None"
    THEN SubmitExamGate(body, isEnrolled, row)
    ELSE IF DOMAIN qs = {} THEN "NoQuestions"
    ELSE "None"

ErrorStatus(error) ==
    CASE error = "MissingAnswers" -> 400
      [] error = "NotEnrolled" -> 404
      [] error = "ContentIncomplete" -> 403
      [] error = "NoQuestions" -> 400
      [] OTHER -> 500

\* The whole handler, run without interleaving.
SubmitExam(body) ==
    /\ Ready
    /\ LET error == SubmitExamError(body, enrolled, enrollment, questions)
       IN  IF error # "None"
           THEN /\ response' = Reply("submitExam", ErrorStatus(error), error, << >>)
                /\ UNCHANGED <<enrollment, examAttempts>>
           ELSE LET attempt == AttemptRow(enrollment, course, questions, body[1])
                    inst == SubmitExamCompute(enrollment, attempt)
                IN  /\ Len(examAttempts) < MaxAttempts
                    /\ examAttempts' = Append(examAttempts, attempt)
                    /\ enrollment' = SaveRow(enrollment, inst)
                    /\ response' = Reply("submitExam", 200, "None",
                                         SubmitExamData(inst.row, course, attempt))
    /\ UNCHANGED <<course, questions, questionsCreated, enrolled, enrollmentRows, now, certCalls, reqs>>

\* -------------------------------------------------------- completeCourse
CertOutcomes == {"ok", "generateFails", "uploadFails", "emailFails"}

\* The collaborator calls one run of the certificate block makes.
CertCallsAfter(calls, outcome) ==
    [generate |-> calls.generate + 1,
     upload |-> calls.upload + (IF outcome = "generateFails" THEN 0 ELSE 1),
     email |-> calls.email + (IF outcome \in {"ok", "emailFails"} THEN 1 ELSE 0)]

\* completeCourse giving up the completion when the certificate block fails.
CompleteCourseComputeStrict(row, time, calls, outcome) ==
    IF outcome = "ok"
    THEN SetField(SetField(SetField(SetField(Instance(row), "progress", 100),
                                    "completed", TRUE),
                           "completedAt", time),
                  "certificateUrl", calls.upload + 1)
    ELSE Instance(row)

\* The enrollment instance of completeCourse when it calls save(): the
\* uploaded certificate is named after the upload that produced it.
CompleteCourseCompute(row, time, calls, outcome) ==
    LET i1 == SetField(Instance(row), "progress", 100)
        i2 == SetField(i1, "completed", TRUE)
        i3 == SetField(i2, "completedAt", time)
    IN  IF outcome \in {"ok", "emailFails"}
        THEN SetField(i3, "certificateUrl", calls.upload + 1)
        ELSE i3

\* completeCourse without the early return for a completed enrollment.
CompleteCourseGateNoIdempotence(isEnrolled, row) ==
    IF ~isEnrolled THEN "NotEnrolled"
    ELSE IF row.contentProgress < 100 THEN "ContentIncomplete"
    ELSE IF ~row.examPassed THEN "ExamNotPassed"
    ELSE "None"

\* The answer completeCourse gives without changing anything, or "None".
CompleteCourseGate(isEnrolled, row) ==
    IF ~isEnrolled THEN "NotEnrolled"
    ELSE IF row.completed THEN "AlreadyCompleted"
    ELSE IF row.contentProgress < 100 THEN "ContentIncomplete"
    ELSE IF ~row.examPassed THEN "ExamNotPassed"
    ELSE "None"

CompleteCourseData(row, message) ==
    [message |-> message, enrollment |-> row, certificateUrl |-> row.certificateUrl]

\* The whole handler, run without interleaving.
CompleteCourse(outcome) ==
    /\ Ready
    /\ LET gate == CompleteCourseGate(enrolled, enrollment)
       IN  CASE gate = "NotEnrolled" ->
                    /\ response' = Reply("completeCourse", 404, gate, << >>)
                    /\ UNCHANGED <<enrollment, certCalls, now>>
             [] gate = "AlreadyCompleted" ->
                    /\ response' = Reply("completeCourse", 200, "None",
                                         CompleteCourseData(enrollment, "AlreadyCompleted"))
                    /\ UNCHANGED <<enrollment, certCalls, now>>
             [] gate \in {"ContentIncomplete", "ExamNotPassed"} ->
                    /\ response' = Reply("completeCourse", 400, gate, << >>)
                    /\ UNCHANGED <<enrollment, certCalls, now>>
             [] OTHER ->
                    LET inst == CompleteCourseCompute(enrollment, now, certCalls, outcome)
                    IN  /\ now' = now + 1
                        /\ certCalls' = CertCallsAfter(certCalls, outcome)
                        /\ enrollment' = SaveRow(enrollment, inst)
                        /\ response' = Reply("completeCourse", 200, "None",
                                             CompleteCourseData(inst.row, "Completed"))
    /\ UNCHANGED <<course, questions, questionsCreated, enrolled, enrollmentRows, examAttempts, reqs>>

\* ----------------------------------------------------------- getProgress
\* The attempt with the highest attemptNumber, as a sequence of at most one row.
LastExamAttempt(attempts) ==
    IF attempts = << >> THEN << >>
    ELSE LET i == CHOOSE k \in 1..Len(attempts) :
                    \A j \in 1..Len(attempts) :
                        attempts[k].attemptNumber >= attempts[j].attemptNumber
         IN  <<attempts[i]>>

GetProgressData(row, c, qs, attempts) ==
    LET questionCount == Cardinality(DOMAIN qs)
        contentCompleted == row.contentProgress >= 100
        hasQuestions == questionCount > 0
    IN  [contentProgress |-> row.contentProgress,
         contentCompleted |-> contentCompleted,
         contentCompletedAt |-> row.contentCompletedAt,
         timeSpentSeconds |-> row.timeSpentSeconds,
         examPassed |-> row.examPassed,
         examScore |-> row.examScore,
         examAttemptCount |-> row.examAttemptCount,
         lastExamAttempt |-> LastExamAttempt(attempts),
         hasQuestions |-> hasQuestions,
         questionCount |-> questionCount,
         passingScore |-> c.passingScore,
         canTakeExam |-> contentCompleted,
         canGetCertificate |-> contentCompleted /\ (~hasQuestions \/ row.examPassed)]

GetProgress ==
    /\ Ready
    /\ response' = (IF ~enrolled THEN Reply("getProgress", 404, "NotEnrolled", << >>)
                    ELSE Reply("getProgress", 200, "None",
                               GetProgressData(enrollment, course, questions, examAttempts)))
    /\ UNCHANGED <<course, questions, questionsCreated, enrolled, enrollmentRows, enrollment,
                   examAttempts, now, certCalls, reqs>>

\* ------------------------------------------- interleaved request handlers
\* The same handlers, one step per await, for requests that overlap in time.
\* The locals of a request live in its slot between its steps.
Goto(s, locals) == [reqs EXCEPT ![s] = locals]

\* updateProgress up to its await of save(): the enrollment and its course are
\* read, the new progress is computed in memory.
UpdateProgressRead(s, body, write) ==
    /\ reqs[s].pc = "idle"
    /\ response = NoResponse
    /\ IF ~enrolled
       THEN /\ response' = Reply("updateProgress", 404, "NotEnrolled", << >>)
            /\ UNCHANGED <<course, now, reqs>>
       ELSE LET inst == UpdateProgressCompute(enrollment, course, body, now)
            IN  /\ inst.row.timeSpentSeconds <= MaxTimeSpent
                /\ course' = (IF IsMedia(course) THEN AdoptDuration(course, body, write)
                              ELSE course)
                /\ now' = ClockAfter(now, inst, "contentCompletedAt")
                /\ reqs' = Goto(s, [pc |-> "updateSave", inst |-> inst,
                                    previous |-> enrollment.contentProgress])
                /\ UNCHANGED response
    /\ UNCHANGED <<questions, questionsCreated, enrolled, enrollmentRows, enrollment, examAttempts,
                   certCalls>>

\* save() and the response.
UpdateProgressSave(s) ==
    /\ reqs[s].pc = "updateSave"
    /\ LET inst == reqs[s].inst
       IN  IF ValidEnrollment(inst.row, inst.changed)
           THEN /\ enrollment' = SaveRow(enrollment, inst)
                /\ response' = Reply("updateProgress", 200, "None",
                                     UpdateProgressData(inst.row))
           ELSE /\ enrollment' = enrollment
                /\ response' = Reply("updateProgress", 500, "ServerError", << >>)
    /\ reqs' = Goto(s, Idle)
    /\ UNCHANGED <<course, questions, questionsCreated, enrolled, enrollmentRows, examAttempts, now,
                   certCalls>>

\* Submissions counted against MaxAttempts: the rows stored and the requests
\* that will still store one.
Submitting == {s \in Slots : reqs[s].pc \in {"submitQuestions", "submitCreate"}}

\* submitExam up to its await of Question.findAll: the enrollment is read.
SubmitExamFind(s, body) ==
    /\ reqs[s].pc = "idle"
    /\ response = NoResponse
    /\ LET error == SubmitExamGate(body, enrolled, enrollment)
       IN  IF error # "None"
           THEN /\ response' = Reply("submitExam", ErrorStatus(error), error, << >>)
                /\ UNCHANGED reqs
           ELSE /\ Len(examAttempts) + Cardinality(Submitting) < MaxAttempts
                /\ reqs' = Goto(s, [pc |-> "submitQuestions", row |-> enrollment,
                                    course |-> course, answers |-> body[1]])
                /\ UNCHANGED response
    /\ UNCHANGED <<course, questions, questionsCreated, enrolled, enrollmentRows, enrollment,
                   examAttempts, now, certCalls>>

\* The questions are read and the attempt is scored, up to the await of
\* ExamAttempt.create.
SubmitExamQuestions(s) ==
    /\ reqs[s].pc = "submitQuestions"
    /\ IF DOMAIN questions = {}
       THEN /\ response' = Reply("submitExam", 400, "NoQuestions", << >>)
            /\ reqs' = Goto(s, Idle)
       ELSE /\ reqs' = Goto(s, [pc |-> "submitCreate", row |-> reqs[s].row,
                                course |-> reqs[s].course,
                                attempt |-> AttemptRow(reqs[s].row, reqs[s].course,
                                                       questions, reqs[s].answers)])
            /\ UNCHANGED response
    /\ UNCHANGED <<course, questions, questionsCreated, enrolled, enrollmentRows, enrollment,
                   examAttempts, now, certCalls>>

\* The attempt row is inserted; the enrollment is updated in memory up to
\* the await of save().
SubmitExamCreate(s) ==
    /\ reqs[s].pc = "submitCreate"
    /\ examAttempts' = Append(examAttempts, reqs[s].attempt)
    /\ reqs' = Goto(s, [pc |-> "submitSave", course |-> reqs[s].course,
                        attempt |-> reqs[s].attempt,
                        inst |-> SubmitExamCompute(reqs[s].row, reqs[s].attempt)])
    /\ UNCHANGED <<course, questions, questionsCreated, enrolled, enrollmentRows, enrollment, now,
                   certCalls, response>>

\* save() and the response.
SubmitExamSave(s) ==
    /\ reqs[s].pc = "submitSave"
    /\ enrollment' = SaveRow(enrollment, reqs[s].inst)
    /\ response' = Reply("submitExam", 200, "None",
                         SubmitExamData(reqs[s].inst.row, reqs[s].course,
                                        reqs[s].attempt))
    /\ reqs' = Goto(s, Idle)
    /\ UNCHANGED <<course, questions, questionsCreated, enrolled, enrollmentRows, examAttempts, now,
                   certCalls>>

\* save() rejects (the database fails the UPDATE): the error handler answers
\* 500; the ExamAttempt row created before stays.
SubmitExamSaveFails(s) ==
    /\ reqs[s].pc = "submitSave"
    /\ response' = Reply("submitExam", 500, "ServerError", << >>)
    /\ reqs' = Goto(s, Idle)
    /\ UNCHANGED <<course, questions, questionsCreated, enrolled, enrollmentRows, enrollment,
                   examAttempts, now, certCalls>>

\* The bodies of overlapping updates: a media position in the middle or at
\* the end with the duration the player knows, or five more seconds of reading.
ConcProgressBodies ==
    { body \in ProgressBodies :
         /\ body.currentPositionSeconds \in {<< >>, <<30>>, <<60>>}
         /\ body.totalDurationSeconds \in {<< >>, <<Seconds(60, 1)>>}
         /\ body.timeSpentSeconds \in {<< >>, <<5>>}
         /\ body.currentPositionSeconds = << >> <=> body.totalDurationSeconds = << >> }

\* The answers of overlapping submissions: every question answered.
FullExamBodies(qs) ==
    { << >> } \cup { <<a>> : a \in [DOMAIN qs -> {<<"a">>, <<"o", "K", " ">>}] }

\* completeCourse up to its await of generateCertificate: the enrollment is
\* read, the gates are tested, the completion is written in memory and
\* generateCertificate is called.
CompleteCourseFind(s) ==
    /\ reqs[s].pc = "idle"
    /\ response = NoResponse
    /\ LET gate == CompleteCourseGate(enrolled, enrollment)
       IN  CASE gate = "NotEnrolled" ->
                    /\ response' = Reply("completeCourse", 404, gate, << >>)
                    /\ UNCHANGED <<certCalls, now, reqs>>
             [] gate = "AlreadyCompleted" ->
                    /\ response' = Reply("completeCourse", 200, "None",
                                         CompleteCourseData(enrollment, "AlreadyCompleted"))
                    /\ UNCHANGED <<certCalls, now, reqs>>
             [] gate \in {"ContentIncomplete", "ExamNotPassed"} ->
                    /\ response' = Reply("completeCourse", 400, gate, << >>)
                    /\ UNCHANGED <<certCalls, now, reqs>>
             [] OTHER ->
                    /\ now' = now + 1
                    /\ certCalls' = [certCalls EXCEPT !.generate = @ + 1]
                    \* no certificateUrl is assigned before the upload returns
                    /\ reqs' = Goto(s, [pc |-> "certGenerate",
                                        inst |-> CompleteCourseCompute(enrollment, now,
                                                     certCalls, "generateFails")])
                    /\ UNCHANGED response
    /\ UNCHANGED <<course, questions, questionsCreated, enrolled, enrollmentRows, enrollment,
                   examAttempts>>

\* generateCertificate returns: with the PDF, and the upload is started, or
\* with an error, which the catch block swallows.
GenerateReturns(s, ok) ==
    /\ reqs[s].pc = "certGenerate"
    /\ IF ok
       THEN /\ certCalls' = [certCalls EXCEPT !.upload = @ + 1]
            /\ reqs' = Goto(s, [pc |-> "certUpload", inst |-> reqs[s].inst,
                                upload |-> certCalls.upload + 1])
       ELSE /\ reqs' = Goto(s, [pc |-> "completeSave", inst |-> reqs[s].inst])
            /\ UNCHANGED certCalls
    /\ UNCHANGED <<course, questions, questionsCreated, enrolled, enrollmentRows, enrollment,
                   examAttempts, now, response>>

\* The upload returns: with the URL, which is assigned and sendEmail is
\* called, or with an error.
UploadReturns(s, ok) ==
    /\ reqs[s].pc = "certUpload"
    /\ IF ok
       THEN /\ certCalls' = [certCalls EXCEPT !.email = @ + 1]
            /\ reqs' = Goto(s, [pc |-> "certEmail",
                                inst |-> SetField(reqs[s].inst, "certificateUrl",
                                                  reqs[s].upload)])
       ELSE /\ reqs' = Goto(s, [pc |-> "completeSave", inst |-> reqs[s].inst])
            /\ UNCHANGED certCalls
    /\ UNCHANGED <<course, questions, questionsCreated, enrolled, enrollmentRows, enrollment,
                   examAttempts, now, response>>

\* sendEmail returns; it reports a failure in its result and never throws.
EmailReturns(s) ==
    /\ reqs[s].pc = "certEmail"
    /\ reqs' = Goto(s, [pc |-> "completeSave", inst |-> reqs[s].inst])
    /\ UNCHANGED <<course, questions, questionsCreated, enrolled, enrollmentRows, enrollment,
                   examAttempts, now, certCalls, response>>

\* save() and the response.
CompleteCourseSave(s) ==
    /\ reqs[s].pc = "completeSave"
    /\ enrollment' = SaveRow(enrollment, reqs[s].inst)
    /\ response' = Reply("completeCourse", 200, "None",
                         CompleteCourseData(reqs[s].inst.row, "Completed"))
    /\ reqs' = Goto(s, Idle)
    /\ UNCHANGED <<course, questions, questionsCreated, enrolled, enrollmentRows, examAttempts, now,
                   certCalls>>

\* ------------------------------------------------ the ways into a course
\* The handlers that create the Enrollment row, one step per await.  The
\* price of the course and the state of the Stripe session are what the
\* handler finds them to be.
EnrollOps == {"purchaseCourse", "createCheckoutSession", "handleWebhook", "verifyPayment"}

\* purchaseCourse up to its await of Enrollment.create: the row is looked up,
\* a course with a price is sent to the Stripe checkout.
PurchaseCourseFind(s, free) ==
    /\ reqs[s].pc = "idle"
    /\ response = NoResponse
    /\ IF enrolled
       THEN /\ response' = Reply("purchaseCourse", 400, "AlreadyEnrolled", << >>)
            /\ UNCHANGED reqs
       ELSE IF ~free
            THEN /\ response' = Reply("purchaseCourse", 400, "UseCheckout", << >>)
                 /\ UNCHANGED reqs
            ELSE /\ reqs' = Goto(s, [pc |-> "enrollCreate", op |-> "purchaseCourse"])
                 /\ UNCHANGED response
    /\ UNCHANGED <<course, questions, questionsCreated, enrolled, enrollmentRows,
                   enrollment, examAttempts, now, certCalls>>

\* createCheckoutSession up to its await of Enrollment.create (free course)
\* or to the session it opens for a course with a price.
CreateCheckoutSessionFind(s, free) ==
    /\ reqs[s].pc = "idle"
    /\ response = NoResponse
    /\ IF enrolled
       THEN /\ response' = Reply("createCheckoutSession", 400, "AlreadyEnrolled", << >>)
            /\ UNCHANGED reqs
       ELSE IF free
            THEN /\ reqs' = Goto(s, [pc |-> "enrollCreate", op |-> "createCheckoutSession"])
                 /\ UNCHANGED response
            ELSE /\ response' = Reply("createCheckoutSession", 200, "None", << >>)
                 /\ UNCHANGED reqs
    /\ UNCHANGED <<course, questions, questionsCreated, enrolled, enrollmentRows,
                   enrollment, examAttempts, now, certCalls>>

\* verifyPayment up to its await of Enrollment.create: the row is looked up
\* and created when the session is paid and there is none.
VerifyPaymentFind(s, paid) ==
    /\ reqs[s].pc = "idle"
    /\ response = NoResponse
    /\ IF paid /\ ~enrolled
       THEN /\ reqs' = Goto(s, [pc |-> "enrollCreate", op |-> "verifyPayment"])
            /\ UNCHANGED response
       ELSE /\ response' = Reply("verifyPayment", 200, "None", << >>)
            /\ UNCHANGED reqs
    /\ UNCHANGED <<course, questions, questionsCreated, enrolled, enrollmentRows,
                   enrollment, examAttempts, now, certCalls>>

\* Enrollment.create of the three handlers above, and their response.
EnrollmentCreate(s) ==
    /\ reqs[s].pc = "enrollCreate"
    /\ CreateEnrollment(reqs[s].op)
    /\ reqs' = Goto(s, Idle)
    /\ UNCHANGED <<course, questions, questionsCreated, examAttempts, now, certCalls>>

\* The Stripe webhook: a checkout.session.completed event creates the row
\* without looking for one; any other event is acknowledged.
HandleWebhook(completed) ==
    /\ response = NoResponse
    /\ IF completed
       THEN CreateEnrollment("handleWebhook")
       ELSE /\ response' = Reply("handleWebhook", 200, "None", << >>)
            /\ UNCHANGED <<enrolled, enrollmentRows, enrollment>>
    /\ UNCHANGED <<course, questions, questionsCreated, examAttempts, now,
                   certCalls, reqs>>

Init ==
    /\ course \in Courses
    /\ questions = << >>
    /\ questionsCreated = 0
    /\ enrolled = FALSE
    /\ enrollmentRows = 0
    /\ enrollment = NewEnrollment
    /\ examAttempts = << >>
    /\ now = 1
    /\ certCalls = [generate |-> 0, upload |-> 0, email |-> 0]
    /\ reqs = [s \in Slots |-> Idle]
    /\ response = NoResponse

\* The learner receives the response; the next request follows it.
Receive ==
    /\ response # NoResponse
    /\ response' = NoResponse
    /\ UNCHANGED <<course, questions, questionsCreated, enrolled, enrollmentRows, enrollment,
                   examAttempts, now, certCalls, reqs>>

Next ==
    \/ Receive
    \/ PurchaseCourse
    \/ \E body \in ProgressBodies, write \in DurationWrites : UpdateProgress(body, write)
    \/ \E body \in QuestionBodies : AddQuestion(body)
    \/ \E id \in 1..MaxQuestions : DeleteQuestion(id)
    \/ GetExam
    \/ \E body \in ExamBodies(questions) : SubmitExam(body)
    \/ \E outcome \in CertOutcomes : CompleteCourse(outcome)
    \/ GetProgress

Spec == Init /\ [][Next]_vars

\* The instructor also edits the questions of the bank between the requests
\* of the learner.
BankNext ==
    \/ Receive
    \/ PurchaseCourse
    \/ \E body \in ConcProgressBodies, write \in DurationWrites :
          UpdateProgress(body, write)
    \/ \E body \in QuestionBodies : AddQuestion(body)
    \/ \E id \in 1..MaxQuestions, body \in QuestionUpdates : UpdateQuestion(id, body)
    \/ \E id \in 1..MaxQuestions : DeleteQuestion(id)
    \/ \E body \in ExamBodies(questions) : SubmitExam(body)

BankSpec == Init /\ [][BankNext]_vars

\* Requests of the learner that overlap: two tabs of the same learner.
ConcNext ==
    \/ Receive
    \/ PurchaseCourse
    \/ \E body \in QuestionBodies : AddQuestion(body)
    \/ \E s \in Slots, body \in ConcProgressBodies, write \in DurationWrites :
          UpdateProgressRead(s, body, write)
    \/ \E s \in Slots : UpdateProgressSave(s)
    \/ \E s \in Slots, body \in FullExamBodies(questions) : SubmitExamFind(s, body)
    \/ \E s \in Slots : SubmitExamQuestions(s)
    \/ \E s \in Slots : SubmitExamCreate(s)
    \/ \E s \in Slots : SubmitExamSave(s)

ConcSpec == Init /\ [][ConcNext]_vars

\* One submitExam request at a time, step by step, whose save() may fail.
FailNext ==
    \/ Receive
    \/ PurchaseCourse
    \/ \E body \in ProgressBodies, write \in DurationWrites : UpdateProgress(body, write)
    \/ \E body \in QuestionBodies : AddQuestion(body)
    \/ \E body \in ExamBodies(questions) : SubmitExamFind(1, body)
    \/ SubmitExamQuestions(1)
    \/ SubmitExamCreate(1)
    \/ SubmitExamSave(1)
    \/ SubmitExamSaveFails(1)

FailSpec == Init /\ [][FailNext]_vars

\* completeCourse requests that overlap, the other handlers run whole.  The
\* steps of the handler itself are taken when they can be; nothing makes
\* generateCertificate, the upload or sendEmail return.
CompleteNext ==
    \/ Receive
    \/ PurchaseCourse
    \/ \E body \in ProgressBodies, write \in DurationWrites : UpdateProgress(body, write)
    \/ \E body \in QuestionBodies : AddQuestion(body)
    \/ \E body \in ExamBodies(questions) : SubmitExam(body)
    \/ \E s \in Slots : CompleteCourseFind(s)
    \/ \E s \in Slots, ok \in BOOLEAN : GenerateReturns(s, ok)
    \/ \E s \in Slots, ok \in BOOLEAN : UploadReturns(s, ok)
    \/ \E s \in Slots : EmailReturns(s)
    \/ \E s \in Slots : CompleteCourseSave(s)

CompleteSpec ==
    /\ Init
    /\ [][CompleteNext]_vars
    /\ \A s \in Slots : WF_vars(CompleteCourseSave(s))

\* The four ways into the course, overlapping with each other and with the
\* progress updates of the learner; questions and submissions run whole.
EnrollNext ==
    \/ Receive
    \/ \E s \in Slots, free \in BOOLEAN : PurchaseCourseFind(s, free)
    \/ \E s \in Slots, free \in BOOLEAN : CreateCheckoutSessionFind(s, free)
    \/ \E s \in Slots, paid \in BOOLEAN : VerifyPaymentFind(s, paid)
    \/ \E s \in Slots : EnrollmentCreate(s)
    \/ \E completed \in BOOLEAN : HandleWebhook(completed)
    \/ \E s \in Slots, body \in ConcProgressBodies, write \in DurationWrites :
          UpdateProgressRead(s, body, write)
    \/ \E s \in Slots : UpdateProgressSave(s)
    \/ \E body \in QuestionBodies : AddQuestion(body)
    \/ \E body \in FullExamBodies(questions) : SubmitExam(body)

EnrollSpec == Init /\ [][EnrollNext]_vars

\* ----------------------------------------------------------------- claims
Sent(op) == response'.op = op

\* C1: over any sequence of updateProgress calls on one enrollment the stored
\* contentProgress never decreases from one call to the next.
C1_ProgressNeverDecreases ==
    [][(enrolled /\ Sent("updateProgress"))
          => enrollment'.contentProgress >= enrollment.contentProgress]_vars

\* C2: in every reachable state a completed enrollment has contentProgress =
\* 100 and either examPassed or a course without questions.
C2_CompletedImpliesGates ==
    (enrolled /\ enrollment.completed)
        => /\ enrollment.contentProgress = 100
           /\ (enrollment.examPassed \/ DOMAIN questions = {})

\* C3: completeCourse on an enrollment with contentProgress = 100 in a course
\* with zero questions succeeds and sets completed, whatever examPassed is.
C3_NoQuestionsCompletes ==
    [][(enrolled /\ enrollment.contentProgress = 100 /\ DOMAIN questions = {}
        /\ Sent("completeCourse"))
          => (response'.status = 200 /\ enrollment'.completed)]_vars

PassedAttempts == {i \in 1..Len(examAttempts) : examAttempts[i].passed}

FirstPassed == CHOOSE i \in PassedAttempts : \A j \in PassedAttempts : i <= j

\* C4: examPassed is true exactly when some attempt passed, examScore is then
\* the score of the first passing attempt, and once examPassed is true no step
\* changes examPassed or examScore.
C4_StickyFirstPass ==
    /\ [](/\ enrollment.examPassed <=> PassedAttempts # {}
          /\ enrollment.examPassed
                => enrollment.examScore = examAttempts[FirstPassed].score)
    /\ [][enrollment.examPassed
             => (enrollment'.examPassed
                 /\ enrollment'.examScore = enrollment.examScore)]_vars

\* A later attempt passed with another score than the first passing one, and
\* the first score is the one stored.
C4_Witness ==
    /\ Len(examAttempts) = 2
    /\ examAttempts[1].passed /\ examAttempts[2].passed
    /\ examAttempts[1].score # examAttempts[2].score
    /\ enrollment.examScore = examAttempts[1].score

\* C5: examAttemptCount equals the number of ExamAttempt rows, the rows are
\* numbered 1, 2, ... and every submitExam that is answered with success adds
\* exactly one row and one to the count, passed or not; any other answer of
\* submitExam adds none.
C5_AttemptCountMatchesRows ==
    /\ [](/\ enrollment.examAttemptCount = Len(examAttempts)
          /\ \A i \in 1..Len(examAttempts) : examAttempts[i].attemptNumber = i)
    /\ [][Sent("submitExam")
             => IF response'.status = 200
                THEN /\ Len(examAttempts') = Len(examAttempts) + 1
                     /\ enrollment'.examAttemptCount = enrollment.examAttemptCount + 1
                ELSE /\ examAttempts' = examAttempts
                     /\ enrollment' = enrollment]_vars

\* One passed and one failed attempt are stored and counted.
C5_Witness ==
    /\ Len(examAttempts) = 2
    /\ enrollment.examAttemptCount = 2
    /\ examAttempts[1].passed /\ ~examAttempts[2].passed

NoSubmissionInFlight ==
    \A s \in Slots : reqs[s].pc \notin {"submitQuestions", "submitCreate", "submitSave"}

\* C6: when two submitExam requests of one enrollment interleave, the recorded
\* attempts have distinct attemptNumbers, examAttemptCount counts both once
\* they are done, and a pass recorded by one is not lost.
C6_ConcurrentSubmissions ==
    /\ \A i, j \in 1..Len(examAttempts) :
          i # j => examAttempts[i].attemptNumber # examAttempts[j].attemptNumber
    /\ NoSubmissionInFlight
          => /\ enrollment.examAttemptCount = Len(examAttempts)
             /\ PassedAttempts # {} => enrollment.examPassed

\* C7: when two updateProgress requests of one enrollment interleave, a
\* request that computed no decrease of the progress it read does not lower
\* the stored contentProgress by its write: the final value is not below
\* what either request computed, whichever writes last.
C7_ConcurrentUpdates ==
    [][\A s \in Slots :
          (/\ reqs[s].pc = "updateSave"
           /\ reqs'[s].pc = "idle"
           /\ reqs[s].inst.row.contentProgress >= reqs[s].previous)
             => enrollment'.contentProgress >= enrollment.contentProgress]_vars

AnswerTexts == { AnswerOk, <<"n", "o">> }

\* The questions that differ from q only in the answer key.
KeyVariantsOf(q) ==
    IF q.questionType = "mcq"
    THEN { [q EXCEPT !.options = [i \in 1..Len(q.options) |->
                                     [q.options[i] EXCEPT !.isCorrect = flags[i]]]] :
             flags \in [1..Len(q.options) -> BOOLEAN] }
    ELSE { [q EXCEPT !.correctAnswer = a] : a \in AnswerTexts }

\* The banks that differ from qs only in the answer key.
KeyVariants(qs) ==
    { b \in [DOMAIN qs -> UNION { KeyVariantsOf(qs[i]) : i \in DOMAIN qs }] :
         \A i \in DOMAIN qs : b[i] \in KeyVariantsOf(qs[i]) }

\* C8: the response of getExam is the one getExam gives for every bank that
\* differs from the stored one only in isCorrect flags and correctAnswers.
C8_ExamHidesAnswerKey ==
    response.op = "getExam"
        => \A b \in KeyVariants(questions) :
              response = GetExamReply(b, enrolled, enrollment, course)

\* getExam has answered with a bank that holds an mcq and a quiz question.
C8_Witness ==
    /\ response.op = "getExam" /\ response.status = 200
    /\ \E i, j \in DOMAIN questions :
          questions[i].questionType = "mcq" /\ questions[j].questionType = "quiz"

\* C9 as stated: for an enrolled learner with contentProgress below 100,
\* getExam and submitExam both fail with ContentIncomplete.
C9_ExamGateAsStated ==
    [][(enrolled /\ enrollment.contentProgress < 100
        /\ (Sent("getExam") \/ Sent("submitExam")))
          => response'.error = "ContentIncomplete"]_vars

\* C9, amended: for an enrolled learner with contentProgress below 100,
\* getExam fails with ContentIncomplete, submitExam fails with ContentIncomplete
\* when the request carries an answers object and with MissingAnswers when it
\* carries none, and an ExamAttempt row is only ever added while
\* contentProgress is 100.
C9_ExamGate ==
    /\ []((enrolled /\ enrollment.contentProgress < 100)
            => /\ GetExamReply(questions, enrolled, enrollment, course).error
                     = "ContentIncomplete"
               /\ \A body \in ExamBodies(questions) :
                     SubmitExamError(body, enrolled, enrollment, questions)
                        = (IF body = << >> THEN "MissingAnswers"
                           ELSE "ContentIncomplete"))
    /\ [][(enrolled /\ enrollment.contentProgress < 100
           /\ (Sent("getExam") \/ Sent("submitExam")))
             => /\ response'.error \in {"ContentIncomplete", "MissingAnswers"}
                /\ response'.error = "MissingAnswers" => Sent("submitExam")
                /\ examAttempts' = examAttempts]_vars
    /\ [][examAttempts' # examAttempts
             => (enrolled /\ enrollment.contentProgress = 100)]_vars

\* submitExam with answers was refused at 50% of the content.
C9_Witness ==
    /\ enrolled /\ enrollment.contentProgress = 50
    /\ response.op = "submitExam" /\ response.error = "ContentIncomplete"

C11_CompletesOnce ==
    /\ [](certCalls.generate <= 1)
    /\ [][enrollment.completed
             => enrollment'.completedAt = enrollment.completedAt]_vars

AwaitingCertificate(s) == reqs[s].pc \in {"certGenerate", "certUpload", "certEmail"}

\* C13: a completeCourse request that passed the gates leads to the
\* enrollment stored as completed and to its response, whether or not
\* generateCertificate, the upload or sendEmail ever return.
C13_CompletionDoesNotWait ==
    \A s \in Slots :
        AwaitingCertificate(s) ~> (enrollment.completed /\ reqs[s].pc = "idle")

\* C12: when both gates hold, completeCourse stores completed = true,
\* completedAt and progress = 100 and answers with success, whether the
\* certificate block ran through or failed at generateCertificate, at the
\* upload or at sendEmail.
C12_CertificateFailureSwallowed ==
    [][(/\ Sent("completeCourse")
        /\ enrolled /\ ~enrollment.completed
        /\ enrollment.contentProgress >= 100 /\ enrollment.examPassed)
          => /\ response'.status = 200 /\ response'.error = "None"
             /\ enrollment'.completed
             /\ enrollment'.completedAt = now
             /\ enrollment'.progress = 100
             /\ response'.data.enrollment = enrollment']_vars

\* The course was completed although generateCertificate failed: no upload,
\* no email, no certificateUrl.
C12_Witness ==
    /\ response.op = "completeCourse" /\ response.status = 200
    /\ response.data.message = "Completed"
    /\ enrollment.completed /\ enrollment.completedAt # NoTime
    /\ enrollment.certificateUrl = NoUrl
    /\ certCalls = [generate |-> 1, upload |-> 0, email |-> 0]

\* C14: for an enrollment not yet completed, getProgress reports canTakeExam
\* exactly when getExam succeeds and canGetCertificate exactly when
\* completeCourse passes its gates.
C14_FlagsAgreeWithGates ==
    (enrolled /\ ~enrollment.completed)
        => LET data == GetProgressData(enrollment, course, questions, examAttempts)
           IN  /\ data.canTakeExam
                     <=> GetExamReply(questions, enrolled, enrollment, course).status = 200
               /\ data.canGetCertificate
                     <=> CompleteCourseGate(enrolled, enrollment) = "None"

\* C15: submitExam changes the database atomically: whenever no submission
\* is in flight, also after one whose save() failed, examAttemptCount counts
\* the ExamAttempt rows and a stored passing attempt comes with examPassed
\* and an examScore.
C15_SubmitExamAtomic ==
    NoSubmissionInFlight
        => /\ enrollment.examAttemptCount = Len(examAttempts)
           /\ PassedAttempts # {}
                 => (enrollment.examPassed /\ enrollment.examScore # NoScore)

\* C16: the stored contentProgress is an integer from 0 to 100 in every
\* reachable state, whatever position, duration or time increment is reported.
C16_ContentProgressInRange ==
    enrollment.contentProgress \in 0..100

\* A text update that computed a negative progress was refused by the
\* validator: the stored row is the one from before.
C16_Witness ==
    /\ enrolled /\ course.contentType = "text"
    /\ response.op = "updateProgress" /\ response.status = 500
    /\ enrollment.contentProgress = 0 /\ enrollment.timeSpentSeconds = 0

\* The progress the unit correction asks for: previous is the stored
\* progress, position the reported one, duration the known one (> 0).
CorrectedProgress(previous, position, duration) ==
    LET calculated == IF position * duration.den > 2 * duration.num
                      THEN Round(position * 100 * duration.den, 1000 * duration.num)
                      ELSE Round(position * 100 * duration.den, duration.num)
    IN  Min(100, Max(previous, calculated))

MediaBody(position) ==
    [currentPositionSeconds |-> <<position>>, totalDurationSeconds |-> << >>,
     timeSpentSeconds |-> << >>]

\* C17: for a video or audio course updateProgress divides a position above
\* twice the known duration by 1000 before it computes the progress, and uses
\* any other position as reported: 5000 at a duration of 120 gives 4%, and
\* every update of a media course stores the progress so computed.
C17_UnitCorrection ==
    /\ [](/\ MediaProgress(0, CourseRow("video", 120, 0, 0, DEFAULT_PASSING_SCORE),
                           MediaBody(5000)) = 4
          /\ MediaProgress(0, CourseRow("audio", 120, 0, 0, DEFAULT_PASSING_SCORE),
                           MediaBody(240)) = 100
          /\ (enrolled /\ IsMedia(course))
                => \A body \in ProgressBodies :
                      LET duration == EffectiveDuration(course, body)
                          position == body.currentPositionSeconds
                      IN  (duration.num > 0 /\ Len(position) = 1)
                             => UpdateProgressCompute(enrollment, course, body, now)
                                   .row.contentProgress
                                = CorrectedProgress(enrollment.contentProgress,
                                                    position[1], duration))
    /\ [][(Sent("updateProgress") /\ enrolled /\ IsMedia(course))
             => \E body \in ProgressBodies :
                   LET duration == EffectiveDuration(course, body)
                       position == body.currentPositionSeconds
                   IN  /\ duration.den = 1 => course'.contentDurationSeconds = duration.num
                       /\ enrollment'.contentProgress
                             = (IF duration.num > 0 /\ Len(position) = 1
                                THEN CorrectedProgress(enrollment.contentProgress,
                                                       position[1], duration)
                                ELSE enrollment.contentProgress)]_vars

\* Position 5000 at a duration of 60 was stored as 8%.
C17_Witness ==
    /\ enrolled /\ IsMedia(course) /\ course.contentDurationSeconds = 60
    /\ response.op = "updateProgress" /\ response.status = 200
    /\ response.data.contentProgress = 8
    /\ enrollment.contentProgress = 8

\* The reading time the text rule asks for.
ClaimedRequiredSeconds(c) ==
    IF c.requiredReadingMinutes # 0 THEN c.requiredReadingMinutes * 60
    ELSE IF c.wordCount > 0 THEN Max(10, Ceil(c.wordCount * 60, 200))
    ELSE 10

TextCourses ==
    { CourseRow("text", 0, minutes, words, DEFAULT_PASSING_SCORE) :
        minutes \in {0, 1, 2}, words \in {0, 3, 33, 34, 400, 401} }

TextBody(increment) ==
    [currentPositionSeconds |-> << >>, totalDurationSeconds |-> << >>,
     timeSpentSeconds |-> <<increment>>]

ReadFor(seconds) == [NewEnrollment EXCEPT !.timeSpentSeconds = seconds]

ClaimedPoints(q, answers, id) ==
    IF id \notin DOMAIN answers THEN 0
    ELSE IF q.questionType = "mcq"
    THEN (IF \E i \in 1..Len(q.options) :
                q.options[i].id = answers[id] /\ q.options[i].isCorrect
          THEN q.points ELSE 0)
    ELSE (IF /\ answers[id] # << >>
             /\ Trim(ToLowerCase(answers[id])) = Trim(ToLowerCase(q.correctAnswer))
          THEN q.points ELSE 0)

RECURSIVE ClaimedSum(_, _, _)
ClaimedSum(ids, qs, answers) ==
    IF ids = {} THEN 0
    ELSE LET id == CHOOSE i \in ids : TRUE
         IN  ClaimedPoints(qs[id], answers, id) + ClaimedSum(ids \ {id}, qs, answers)

QuestionsOfType(type) == {id \in DOMAIN questions : questions[id].questionType = type}

\* The step is a submitExam that recorded an attempt whose pointsEarned the
\* scoring rules give for some answers object.
ScoredAsClaimed ==
    /\ response'.status = 200
    /\ Len(examAttempts') = Len(examAttempts) + 1
    /\ SubSeq(examAttempts', 1, Len(examAttempts)) = examAttempts
    /\ \E answers \in AnswerMaps(questions) :
          LET row == examAttempts'[Len(examAttempts')]
          IN  /\ row.pointsEarned = ClaimedSum(DOMAIN questions, questions, answers)
              /\ response'.data.pointsEarned = row.pointsEarned

RECURSIVE BankPoints(_, _)
BankPoints(ids, qs) ==
    IF ids = {} THEN 0
    ELSE LET id == CHOOSE i \in ids : TRUE
         IN  qs[id].points + BankPoints(ids \ {id}, qs)

\* C21: every recorded exam attempt has 0 <= pointsEarned <= totalPoints and
\* passed exactly when pointsEarned * 100 >= passingScore * totalPoints, and
\* the totalPoints of the attempt a submission records is the sum of the
\* points of all the questions the course has at that time.
C21_AttemptPoints ==
    /\ [](\A i \in 1..Len(examAttempts) :
             LET a == examAttempts[i]
             IN  /\ 0 <= a.pointsEarned
                 /\ a.pointsEarned <= a.totalPoints
                 /\ a.passed <=> (a.pointsEarned * 100
                                    >= course.passingScore * a.totalPoints))
    /\ [][(Sent("submitExam") /\ response'.status = 200)
             => examAttempts'[Len(examAttempts')].totalPoints
                   = BankPoints(DOMAIN questions, questions)]_vars

\* min(100, max(previous, round(position / duration * 100))) for the position
\* pnum / pden and the duration duration.num / duration.den.
StatedMediaProgress(previous, pnum, pden, duration) ==
    Min(100, Max(previous, Round(pnum * 100 * duration.den, pden * duration.num)))

WatchedTo(percent) == [NewEnrollment EXCEPT !.contentProgress = percent]

\* C22: for a video or audio course with a known positive duration and a
\* position, updateProgress stores contentProgress = min(100, max(previous,
\* round(position / duration * 100))), the position being the one the handler
\* computes with (the reported one, divided by 1000 when it is above twice
\* the duration): the result is rounded to the nearest integer, never falls
\* below the stored progress and never exceeds 100.
C22_MediaProgress ==
    /\ [](LET c60 == CourseRow("video", 60, 0, 0, DEFAULT_PASSING_SCORE)
              c61 == CourseRow("audio", 61, 0, 0, DEFAULT_PASSING_SCORE)
          IN  /\ MediaProgress(0, c60, MediaBody(30)) = 50
              /\ MediaProgress(50, c60, MediaBody(0)) = 50
              /\ MediaProgress(50, c60, MediaBody(-10)) = 50
              /\ MediaProgress(50, c60, MediaBody(90)) = 100
              /\ MediaProgress(0, c61, MediaBody(30)) = 49
              /\ MediaProgress(0, c61, MediaBody(31)) = 51
              /\ UpdateProgressCompute(WatchedTo(50), c60, MediaBody(45), now).row
                    .contentProgress = 75)
    /\ []((enrolled /\ IsMedia(course))
             => \A body \in ProgressBodies :
                   LET duration == EffectiveDuration(course, body)
                       position == body.currentPositionSeconds
                   IN  (duration.num > 0 /\ Len(position) = 1)
                          => UpdateProgressCompute(enrollment, course, body, now)
                                .row.contentProgress
                             = StatedMediaProgress(
                                  enrollment.contentProgress, position[1],
                                  IF position[1] * duration.den > 2 * duration.num
                                  THEN 1000 ELSE 1,
                                  duration))
    /\ [][(Sent("updateProgress") /\ enrolled /\ IsMedia(course))
             => /\ response'.status = 200
                /\ enrollment'.contentProgress >= enrollment.contentProgress
                /\ enrollment'.contentProgress <= 100
                /\ response'.data.contentProgress = enrollment'.contentProgress]_vars

\* Position 60 of the 60.5 seconds the player reports was stored as 99%.
C22_Witness ==
    /\ enrolled /\ IsMedia(course)
    /\ response.op = "updateProgress" /\ response.status = 200
    /\ response.data.contentProgress = 99
    /\ enrollment.contentProgress = 99

\* C23: an updateProgress of a video or audio course that has no duration to
\* compute with (the course has none and the client sent none above zero) or
\* that carries no position leaves contentProgress, progress and
\* contentCompletedAt as they were and is answered with success; a media
\* update that does not move contentProgress changes nothing at all.
C23_NoOpUpdate ==
    /\ []((enrolled /\ IsMedia(course))
             => \A body \in ProgressBodies :
                   (\/ EffectiveDuration(course, body).num = 0
                    \/ body.currentPositionSeconds = << >>)
                      => LET inst == UpdateProgressCompute(enrollment, course, body, now)
                         IN  /\ inst.row.contentProgress = enrollment.contentProgress
                             /\ inst.row.progress = enrollment.progress
                             /\ inst.row.contentCompletedAt = enrollment.contentCompletedAt
                             /\ inst.changed = {}
                             /\ ValidEnrollment(inst.row, inst.changed))
    /\ [][(Sent("updateProgress") /\ enrolled /\ IsMedia(course))
             => /\ response'.status = 200
                /\ enrollment'.contentProgress = enrollment.contentProgress
                      => (/\ enrollment' = enrollment
                          /\ response'.data = UpdateProgressData(enrollment))]_vars

\* An update of a video whose duration nobody knows was answered 200 with the
\* progress still 0.
C23_Witness ==
    /\ enrolled /\ IsMedia(course) /\ course.contentDurationSeconds = 0
    /\ response.op = "updateProgress" /\ response.status = 200
    /\ response.data.contentProgress = 0 /\ ~response.data.contentCompleted
    /\ enrollment = NewEnrollment

\* C24: contentCompletedAt is null as long as contentProgress has not reached
\* 100, is set to the current time by the updateProgress call that takes
\* contentProgress from below 100 to 100 for the first time, and once set is
\* changed by no operation.
C24_StampedOnce ==
    /\ [](enrolled => (enrollment.contentCompletedAt = NoTime
                          => enrollment.contentProgress < 100))
    /\ [][(enrolled /\ enrollment.contentCompletedAt # NoTime)
             => enrollment'.contentCompletedAt = enrollment.contentCompletedAt]_vars
    /\ [][(enrolled /\ enrollment.contentCompletedAt = NoTime
                    /\ enrollment'.contentCompletedAt # NoTime)
             => /\ Sent("updateProgress") /\ response'.status = 200
                /\ enrollment.contentProgress < 100
                /\ enrollment'.contentProgress = 100
                /\ enrollment'.contentCompletedAt = now
                /\ response'.data.contentCompletedAt = now]_vars
    /\ [][(enrolled /\ enrollment.contentProgress < 100
                    /\ enrollment'.contentProgress = 100)
             => enrollment'.contentCompletedAt # NoTime]_vars

\* An update at 100% after the course was completed: the stamp is still the
\* one from before the completion.
C24_Witness ==
    /\ enrolled /\ enrollment.completed
    /\ response.op = "updateProgress" /\ response.status = 200
    /\ enrollment.contentProgress = 100
    /\ enrollment.contentCompletedAt # NoTime
    /\ enrollment.contentCompletedAt < enrollment.completedAt

\* The request bodies that carry a duration above zero.
WithClientDuration ==
    { body \in ProgressBodies :
         Len(body.totalDurationSeconds) = 1 /\ body.totalDurationSeconds[1].num > 0 }

\* C25: when the course has no known duration and an updateProgress call
\* carries a duration above zero, the call computes with that duration and the
\* course's contentDurationSeconds becomes that value; once the course has a
\* duration, the handler computes with it whatever the client sends and no
\* updateProgress changes it.
C25_DurationAdoption ==
    /\ []((enrolled /\ IsMedia(course) /\ course.contentDurationSeconds = 0)
             => \A body \in WithClientDuration, write \in DurationWrites :
                   LET sent == body.totalDurationSeconds[1]
                   IN  /\ EffectiveDuration(course, body) = sent
                       /\ AdoptDuration(course, body, write).contentDurationSeconds
                             * sent.den = sent.num)
    /\ []((enrolled /\ IsMedia(course) /\ course.contentDurationSeconds > 0)
             => \A body \in ProgressBodies, write \in DurationWrites :
                   /\ EffectiveDuration(course, body)
                         = Seconds(course.contentDurationSeconds, 1)
                   /\ AdoptDuration(course, body, write) = course)
    /\ [][(Sent("updateProgress") /\ course.contentDurationSeconds > 0)
             => course' = course]_vars

\* C26: no updateProgress call lowers timeSpentSeconds, and only an
\* updateProgress on a text course changes it.
C26_TimeSpentNeverDecreases ==
    /\ [][(enrolled /\ Sent("updateProgress"))
             => /\ enrollment'.timeSpentSeconds >= enrollment.timeSpentSeconds
                /\ course.contentType # "text"
                      => enrollment'.timeSpentSeconds = enrollment.timeSpentSeconds]_vars
    /\ [][(enrolled /\ enrollment'.timeSpentSeconds # enrollment.timeSpentSeconds)
             => (Sent("updateProgress") /\ course.contentType = "text")]_vars

\* C27: whatever the interleaving of purchaseCourse, createCheckoutSession,
\* the Stripe webhook and verifyPayment for the learner and the course, there
\* is at most one Enrollment row; a step of these handlers taken while the row
\* exists adds no row and leaves the row as it is, and the row a creation
\* inserts is a fresh one.
C27_OneEnrollment ==
    /\ [](enrollmentRows <= 1 /\ (enrolled <=> enrollmentRows = 1))
    /\ [][enrolled
             => /\ enrolled' /\ enrollmentRows' = enrollmentRows
                /\ response'.op \in EnrollOps => enrollment' = enrollment]_vars
    /\ [][(~enrolled /\ enrolled')
             => /\ response'.op \in EnrollOps /\ response'.status = 200
                /\ enrollment' = NewEnrollment]_vars

\* verifyPayment found no row, the webhook created it and the learner
\* finished the content before verifyPayment's own INSERT was rejected.
C27_Witness ==
    /\ response.op = "verifyPayment" /\ response.status = 500
    /\ enrolled /\ enrollmentRows = 1
    /\ enrollment.contentProgress = 100

ExpectedFailures ==
    {"NotEnrolled", "ContentIncomplete", "NoQuestions", "ExamNotPassed", "MissingAnswers"}

\* C28: when updateProgress, getExam, submitExam or completeCourse answers
\* with an expected failure (not enrolled, content incomplete, no questions,
\* exam not passed, missing answers) the enrollment, the exam attempts and the
\* course are what they were before the call, and the answer is a 4xx.
C28_FailuresChangeNothing ==
    [][(/\ response'.op \in {"updateProgress", "getExam", "submitExam", "completeCourse"}
        /\ response'.error \in ExpectedFailures)
          => /\ enrolled' = enrolled /\ enrollmentRows' = enrollmentRows
             /\ enrollment' = enrollment
             /\ examAttempts' = examAttempts
             /\ course' = course
             /\ response'.status \in {400, 403, 404}]_vars

\* completeCourse was refused for an exam not passed after a failed attempt:
\* the attempt and its count are still there.
C28_Witness ==
    /\ response.op = "completeCourse" /\ response.error = "ExamNotPassed"
    /\ enrolled /\ enrollment.examAttemptCount = 1 /\ Len(examAttempts) = 1
    /\ ~enrollment.completed

\* C29: in every reachable state an enrollment with examAttemptCount above 0
\* or with examPassed set has contentProgress = 100.
C29_ExamImpliesContent ==
    enrolled => ((enrollment.examAttemptCount > 0 \/ enrollment.examPassed)
                    => enrollment.contentProgress = 100)

Same(fields) == \A f \in fields : enrollment'[f] = enrollment[f]

\* C30: updateProgress changes none of examPassed, examScore,
\* examAttemptCount, completed, completedAt and certificateUrl; submitExam
\* changes none of contentProgress, progress, timeSpentSeconds,
\* contentCompletedAt, completed and certificateUrl; getProgress and getExam
\* change nothing but the response they send.
C30_FrameConditions ==
    /\ [][Sent("updateProgress")
             => /\ Same({"examPassed", "examScore", "examAttemptCount", "completed",
                         "completedAt", "certificateUrl"})
                /\ UNCHANGED <<enrolled, examAttempts, questions>>]_vars
    /\ [][Sent("submitExam")
             => /\ Same({"contentProgress", "progress", "timeSpentSeconds",
                         "contentCompletedAt", "completed", "certificateUrl"})
                /\ UNCHANGED <<enrolled, course, questions>>]_vars
    /\ [][(Sent("getProgress") \/ Sent("getExam"))
             => UNCHANGED <<course, questions, questionsCreated, enrolled,
                            enrollmentRows, enrollment, examAttempts, now,
                            certCalls, reqs>>]_vars

\* A text update after the completion took the progress back to 50%: the exam
\* result, the completion and the certificate are still in place.
C30_Witness ==
    /\ response.op = "updateProgress" /\ response.status = 200
    /\ enrolled /\ enrollment.contentProgress = 50
    /\ enrollment.examPassed /\ enrollment.examAttemptCount > 0
    /\ enrollment.completed /\ enrollment.completedAt # NoTime
    /\ enrollment.certificateUrl # NoUrl


====
